---- MODULE Spec2Model ----
(***************************************************************************)
(* Model of the environw_proxy weather proxy: the API-gateway handler      *)
(* (lambda_handler.py), the normalisation and the two publishers           *)
(* (process.py) and the record constructors (objects.py).                  *)
(*                                                                         *)
(* Strings that the code inspects character by character (nicknames,       *)
(* timestamps) are tuples of one-character strings.  Floating-point        *)
(* values are exact rationals [n |-> numerator, d |-> denominator], not    *)
(* normalised, so that a unit conversion is never the identity.            *)
(***************************************************************************)
EXTENDS Integers, Sequences, FiniteSets, TLC

VARIABLES
    \* ---- one invocation of the lambda handler ----
    pc,                  \* position of the handler
    request,             \* the APIGatewayProxyEvent: path, http_method, json_body
    environ,             \* os.environ: a function from the names that are set
    endpoint,            \* how each target answers a request it receives
    outbound,            \* HTTP requests issued so far, in order
    calls,               \* functions of process.py the handler has invoked
    result_windy,        \* handler local (valid once pc is past "windy")
    result_wunderground, \* handler local (valid once pc is past "wunderground")
    response,            \* the dict the handler returns
    error,               \* exception that left the handler ("" when none)
    \* ---- station resolution on its own ----
    station_name,        \* argument of get_station_value
    canonical,           \* the upper-case alphanumeric name station_name was derived from
    edits,               \* number of case/punctuation edits applied to station_name
    resolved,            \* [done, value]: result of get_station_value(station_name)
    \* ---- record constructors on their own ----
    ctor                 \* [cls, args, raised, rec]: last constructor call

vars == <<pc, request, environ, endpoint, outbound, calls, result_windy,
          result_wunderground, response, error,
          station_name, canonical, edits, resolved, ctor>>

handlerVars == <<pc, request, environ, endpoint, outbound, calls, result_windy,
                 result_wunderground, response, error>>
resolverVars == <<station_name, canonical, edits, resolved>>
ctorVars == <<ctor>>

-----------------------------------------------------------------------------
(* Bounds of the model. *)

\* at most this many required keys are absent from the inbound json_body
MaxMissing == 1
\* at most this many case/punctuation edits are applied to a sample nickname
MaxEdits == 2

-----------------------------------------------------------------------------
(* Python values. *)

\* Optional values: None, or a present value
None == [some |-> FALSE, v |-> 0]
NoneStr == [some |-> FALSE, v |-> ""]
NoneChars == [some |-> FALSE, v |-> <<>>]
NoneRat == [some |-> FALSE, v |-> [n |-> 0, d |-> 1]]
Some(x) == [some |-> TRUE, v |-> x]

\* the float n/d
Rat(n, d) == [n |-> n, d |-> d]

-----------------------------------------------------------------------------
(* Characters. *)

LowerLetters == <<"a","b","c","d","e","f","g","h","i","j","k","l","m",
                  "n","o","p","q","r","s","t","u","v","w","x","y","z">>
UpperLetters == <<"A","B","C","D","E","F","G","H","I","J","K","L","M",
                  "N","O","P","Q","R","S","T","U","V","W","X","Y","Z">>
Digits == <<"0","1","2","3","4","5","6","7","8","9">>

Range(s) == {s[i] : i \in 1..Len(s)}

\* str.isalnum on one character
IsAlnum(c) == c \in Range(LowerLetters) \cup Range(UpperLetters) \cup Range(Digits)
IsDigit(c) == c \in Range(Digits)

\* str.upper on one character
UpperChar(c) ==
    IF c \in Range(LowerLetters)
    THEN UpperLetters[CHOOSE i \in 1..Len(LowerLetters) : LowerLetters[i] = c]
    ELSE c

\* str.lower on one character
LowerChar(c) ==
    IF c \in Range(UpperLetters)
    THEN LowerLetters[CHOOSE i \in 1..Len(UpperLetters) : UpperLetters[i] = c]
    ELSE c

\* ''.join(filter(str.isalnum, s))
RECURSIVE FilterAlnum(_)
FilterAlnum(s) ==
    IF s = <<>> THEN <<>>
    ELSE IF IsAlnum(Head(s)) THEN <<Head(s)>> \o FilterAlnum(Tail(s))
    ELSE FilterAlnum(Tail(s))

\* s.upper()
Upper(s) == [i \in 1..Len(s) |-> UpperChar(s[i])]

-----------------------------------------------------------------------------
(* objects.Station and process.get_station_value. *)

\* class Station(Enum), in definition order
Station == << [name |-> <<"O","L","L","I","V","E","R","H","O","M","E">>, value |-> 0],
              [name |-> <<"L","I","Z","A","R","D","H","U","B","S">>, value |-> 1] >>

\* a lookup whose no-match value is not a station's value
\* (mutation of MatchFrom)
RECURSIVE MatchFromNoSentinelClash(_, _)
MatchFromNoSentinelClash(normalized_input, i) ==
    IF i > Len(Station) THEN -1
    ELSE IF Station[i].name = normalized_input THEN Station[i].value
    ELSE MatchFromNoSentinelClash(normalized_input, i + 1)

\* the for loop of get_station_value: first member whose name matches, else 0
RECURSIVE MatchFrom(_, _)
MatchFrom(normalized_input, i) ==
    IF i > Len(Station) THEN 0
    ELSE IF Station[i].name = normalized_input THEN Station[i].value
    ELSE MatchFrom(normalized_input, i + 1)

\* normalisation that forgets to upper-case (mutation of NormalizeName)
NormalizeNameNoUpper(name) == FilterAlnum(name)

\* normalized_input = ''.join(filter(str.isalnum, station_name)).upper()
NormalizeName(name) == Upper(FilterAlnum(name))

get_station_value(name) == MatchFrom(NormalizeName(name), 1)

-----------------------------------------------------------------------------
(* Unit conversions of process.py (exact rational arithmetic). *)

\* speed_mps * 2.23694
mps_to_mph(speed_mps) == Rat(speed_mps.n * 223694, speed_mps.d * 100000)

\* (fahrenheit - 32) * 5 / 9
fahrenheit_to_celsius(fahrenheit) ==
    Rat((fahrenheit.n - 32 * fahrenheit.d) * 5, fahrenheit.d * 9)

\* (celsius * 9 / 5) + 32
celsius_to_fahrenheit(celsius) ==
    Rat(celsius.n * 9 + 32 * 5 * celsius.d, celsius.d * 5)

\* length_mm * 0.0393701
mm_to_inches(length_mm) == Rat(length_mm.n * 393701, length_mm.d * 10000000)

-----------------------------------------------------------------------------
(* Timestamps: datetime.strptime / strftime / fromtimestamp and            *)
(* urllib.parse.quote_plus, on zero-padded fixed-width strings.            *)

\* does s match "%Y-%m-%d %H:%M:%S" (zero-padded fields)
MatchesDateTimeFormat(s) ==
    /\ Len(s) = 19
    /\ \A i \in {1,2,3,4,6,7,9,10,12,13,15,16,18,19} : IsDigit(s[i])
    /\ s[5] = "-" /\ s[8] = "-" /\ s[11] = " " /\ s[14] = ":" /\ s[17] = ":"

\* quote_plus on one character: space becomes '+', ':' is percent-encoded,
\* alphanumerics and '-' '.' '_' '~' are kept
QuoteChar(c) ==
    IF c = " " THEN <<"+">>
    ELSE IF c = ":" THEN <<"%","3","A">>
    ELSE <<c>>

RECURSIVE quote_plus(_)
quote_plus(s) ==
    IF s = <<>> THEN <<>> ELSE QuoteChar(Head(s)) \o quote_plus(Tail(s))

\* convert_date_time: strptime raises ValueError unless the string matches;
\* strftime with the same format gives the string back; then quote_plus
convert_date_time(date_time) ==
    IF MatchesDateTimeFormat(date_time)
    THEN [raised |-> "", value |-> quote_plus(date_time)]
    ELSE [raised |-> "ValueError", value |-> <<>>]

TwoDigits(k) == <<Digits[(k \div 10) + 1], Digits[(k % 10) + 1]>>

\* datetime.fromtimestamp(int(ts), tz=timezone.utc).isoformat() + 'Z',
\* for timestamps within January 1970
IsoFromTimestamp(ts) ==
    <<"1","9","7","0","-","0","1","-">> \o TwoDigits((ts \div 86400) + 1)
    \o <<"T">> \o TwoDigits((ts % 86400) \div 3600)
    \o <<":">> \o TwoDigits((ts % 3600) \div 60)
    \o <<":">> \o TwoDigits(ts % 60)
    \o <<"+","0","0",":","0","0","Z">>

\* strptime(dateutc, "%Y-%m-%d %H:%M:%S").strftime("%Y-%m-%dT%H:%M:%S.000Z")
IsoFromDateutc(dateutc) ==
    SubSeq(dateutc, 1, 10) \o <<"T">> \o SubSeq(dateutc, 12, 19)
    \o <<".","0","0","0","Z">>

-----------------------------------------------------------------------------
(* objects.WindyObservationRecord and objects.WindyStationRecord.          *)
(* A constructor call is [raised |-> exception name or "", rec |-> fields  *)
(* after __post_init__].                                                   *)

\* "b or a": an alternate of 0 is taken for absent (mutation of Override)
OverrideTruthy(a, b) == IF b.some /\ b.v # 0 THEN b.v ELSE a

\* "b if b is not None else a"
Override(a, b) == IF b.some THEN b.v ELSE a

\* lines 77-78: station, then si, then stationId
ObsStation(station, si, stationId) ==
    Override(Override(station, si), stationId)

\* lines 79-84: the if/elif on ts and dateutc
ObsTime(time, dateutc, ts) ==
    IF ts.some THEN [raised |-> "", value |-> IsoFromTimestamp(ts.v)]
    ELSE IF dateutc.some
    THEN IF MatchesDateTimeFormat(dateutc.v)
         THEN [raised |-> "", value |-> IsoFromDateutc(dateutc.v)]
         ELSE [raised |-> "ValueError", value |-> time]
    ELSE [raised |-> "", value |-> time]

\* lines 92-93: mbar, then baromin * 3386.39
ObsPressure(pressure, mbar, baromin) ==
    LET p1 == IF mbar.some THEN mbar ELSE pressure
    IN IF baromin.some
       THEN Some(Rat(baromin.v.n * 338639, baromin.v.d * 100))
       ELSE p1

\* WindyObservationRecord(**a) followed by __post_init__
WindyObservationRecord(a) ==
    LET t == ObsTime(a.time, a.dateutc, a.ts)
    IN [raised |-> t.raised,
        rec |-> [a EXCEPT
            !.station = ObsStation(a.station, a.si, a.stationId),
            !.time = t.value,
            !.temp = IF a.tempf.some
                     THEN Some(fahrenheit_to_celsius(a.tempf.v)) ELSE a.temp,
            !.wind = IF a.windspeedmph.some
                     THEN Some(Rat(a.windspeedmph.v.n * 44704,
                                   a.windspeedmph.v.d * 100000))
                     ELSE a.wind,
            !.gust = IF a.windgustmph.some
                     THEN Some(Rat(a.windgustmph.v.n * 44704,
                                   a.windgustmph.v.d * 100000))
                     ELSE a.gust,
            !.humidity = IF a.rh.some THEN a.rh ELSE a.humidity,
            !.pressure = ObsPressure(a.pressure, a.mbar, a.baromin),
            !.precip = IF a.rainin.some
                       THEN Some(Rat(a.rainin.v.n * 254, a.rainin.v.d * 10))
                       ELSE a.precip]]

\* the defaults of the dataclass fields of WindyObservationRecord
\* (time's default_factory, the current instant, is passed in)
ObsDefaults(now) ==
    [si |-> None, stationId |-> None, dateutc |-> NoneChars, ts |-> None,
     tempf |-> NoneRat, windspeedmph |-> NoneRat, windgustmph |-> NoneRat,
     rh |-> NoneRat, mbar |-> NoneRat, baromin |-> NoneRat, rainin |-> NoneRat,
     station |-> 0, time |-> now]

\* lines 151-158: first of station, si, stationId that is present, else 0
StationRecStation(station, si, stationId) ==
    IF station.some THEN station.v
    ELSE IF si.some THEN si.v
    ELSE IF stationId.some THEN stationId.v
    ELSE 0

\* lines 160-162: elev, then elev_m, then altitude
StationRecElevation(elevation, elev, elev_m, altitude) ==
    Override(Override(Override(elevation, elev), elev_m), altitude)

\* WindyStationRecord(**a) followed by __post_init__; station is an int after it
WindyStationRecord(a) ==
    [raised |-> "",
     rec |-> [a EXCEPT
        !.station = Some(StationRecStation(a.station, a.si, a.stationId)),
        !.elevation = StationRecElevation(a.elevation, a.elev, a.elev_m, a.altitude),
        !.tempheight = Override(a.tempheight, a.agl_temp),
        !.windheight = Override(a.windheight, a.agl_wind)]]

-----------------------------------------------------------------------------
(* The inbound event and the environment. *)

\* the keys of a RawObservation; "readings.x" is key x of the nested mapping
ReadingKeys == {"readings.pressure", "readings.wind_speed", "readings.rain",
                "readings.wind_direction", "readings.humidity",
                "readings.temperature", "readings.light"}
BodyKeys == {"nickname", "timestamp", "readings"} \cup ReadingKeys

\* event[key] raises KeyError: the key, or the mapping that holds it, is absent
Absent(body, key) ==
    \/ key \in body.missing
    \/ key \in ReadingKeys /\ "readings" \in body.missing

\* first subscript of the sequence that raises KeyError, 0 when none does
RECURSIVE FirstKeyError(_, _, _)
FirstKeyError(body, accesses, i) ==
    IF i > Len(accesses) THEN 0
    ELSE IF Absent(body, accesses[i]) THEN i
    ELSE FirstKeyError(body, accesses, i + 1)

\* os.environ.get(name, None)
EnvironGet(env, name) ==
    IF name \in DOMAIN env THEN Some(env[name]) ELSE NoneStr

\* f"WUNDERGROUND_STATION_ID_{n}" and f"WUNDERGROUND_STATION_KEY_{n}"
WuIdVar(n) == CASE n = 0 -> "WUNDERGROUND_STATION_ID_0"
                [] n = 1 -> "WUNDERGROUND_STATION_ID_1"
                [] OTHER -> "WUNDERGROUND_STATION_ID_?"
WuKeyVar(n) == CASE n = 0 -> "WUNDERGROUND_STATION_KEY_0"
                 [] n = 1 -> "WUNDERGROUND_STATION_KEY_1"
                 [] OTHER -> "WUNDERGROUND_STATION_KEY_?"

\* what a target answers: a network-level fault (requests.exceptions.
\* RequestException) or a completed response with a status code
Fault == [fault |-> TRUE, status |-> 0]
Answer(status) == [fault |-> FALSE, status |-> status]

-----------------------------------------------------------------------------
(* process.get_source_object, process_windy_records, post_records_windy.   *)

\* json.dumps(asdict(record), default=complex_handler): the JSON text of d
JsonDumps(d) == <<"json", d>>

\* subscripts evaluated by a get_source_object that leaves uv out
\* (mutation of SourceAccesses)
SourceAccessesNoLight ==
    <<"nickname", "readings.temperature", "readings.wind_speed",
      "readings.wind_direction", "readings.humidity", "readings.pressure",
      "readings.rain", "timestamp">>

\* subscripts of event evaluated by get_source_object, in evaluation order
SourceAccesses ==
    <<"nickname", "readings.temperature", "readings.wind_speed",
      "readings.wind_direction", "readings.humidity", "readings.pressure",
      "readings.rain", "readings.light", "timestamp">>

\* get_source_object(event): KeyError on the first absent key, else the list
\* holding one WindyObservationRecord
get_source_object(event) ==
    IF FirstKeyError(event, SourceAccesses, 1) # 0
    THEN [raised |-> "KeyError", records |-> <<>>]
    ELSE LET r == WindyObservationRecord(
                    [temp |-> Some(event.readings.temperature),
                     wind |-> Some(event.readings.wind_speed),
                     windir |-> Some(event.readings.wind_direction),
                     gust |-> Some(Rat(0, 1)),
                     humidity |-> Some(event.readings.humidity),
                     dewpoint |-> Some(Rat(0, 1)),
                     pressure |-> Some(event.readings.pressure),
                     precip |-> Some(event.readings.rain),
                     uv |-> Some(event.readings.light)]
                    @@ [ObsDefaults(event.timestamp) EXCEPT
                          !.station = get_station_value(event.nickname)])
         IN [raised |-> r.raised, records |-> <<r.rec>>]

\* a publisher's outcome: its return value and the requests it issued
Outcome(raised, result, requests) ==
    [raised |-> raised, result |-> result, requests |-> requests]

WindyRequest(api_key, json_payload) ==
    [target |-> "windy", method |-> "POST",
     url |-> [base |-> "https://stations.windy.com/pws/update/", key |-> api_key],
     data |-> <<json_payload>>]

\* a post_records_windy that posts without testing the key
\* (mutation of post_records_windy)
post_records_windy_nokeycheck(json_payload, env, answer) ==
    LET api_key == EnvironGet(env, "WINDY_API_KEY")
        req == WindyRequest(IF api_key.some THEN api_key.v ELSE "None", json_payload)
    IN IF answer.fault THEN Outcome("", FALSE, <<req>>)
       ELSE Outcome("", TRUE, <<req>>)

\* post_records_windy: False when the key is unset (no request) or when
\* requests.post raises RequestException; True after any completed response,
\* the status code only selecting the line that is printed
post_records_windy(json_payload, env, answer) ==
    LET api_key == EnvironGet(env, "WINDY_API_KEY")
    IN IF ~api_key.some THEN Outcome("", FALSE, <<>>)
       ELSE LET req == WindyRequest(api_key.v, json_payload)
            IN IF answer.fault THEN Outcome("", FALSE, <<req>>)
               ELSE IF answer.status = 200 THEN Outcome("", TRUE, <<req>>)
               ELSE Outcome("", TRUE, <<req>>)

\* process_windy_records(event)
process_windy_records(event, env, answer) ==
    LET src == get_source_object(event)
    IN IF src.raised # "" THEN Outcome(src.raised, FALSE, <<>>)
       ELSE LET observations == [i \in 1..Len(src.records) |->
                                    JsonDumps(src.records[i])]
            IN post_records_windy([observations |-> observations], env, answer)

-----------------------------------------------------------------------------
(* process.post_records_wunderground. *)

\* "station_id is None or station_key is None"
CredentialsMissing(station_id, station_key) == ~station_id.some \/ ~station_key.some

\* subscripts of event evaluated while the parameters are formatted (line 221)
WundergroundAccesses ==
    <<"timestamp", "readings.wind_direction", "readings.wind_speed",
      "readings.temperature", "readings.rain", "readings.humidity",
      "readings.pressure">>

\* the query string of line 221, as its fields in order
WundergroundParameters(event, station_id, station_key, dateutc) ==
    [ID |-> station_id, PASSWORD |-> station_key, dateutc |-> dateutc,
     winddir |-> event.readings.wind_direction,
     windspeedmph |-> mps_to_mph(event.readings.wind_speed),
     tempf |-> celsius_to_fahrenheit(event.readings.temperature),
     rainin |-> mm_to_inches(event.readings.rain),
     humidity |-> event.readings.humidity,
     baromin |-> event.readings.pressure,
     action |-> "updateraw"]

WundergroundRequest(parameters) ==
    [target |-> "wunderground", method |-> "GET",
     url |-> [base |-> "https://weatherstation.wunderground.com/weatherstation/updateweatherstation.php",
              key |-> ""],
     data |-> <<parameters>>]

\* a post_records_wunderground that gives up only when both credentials are
\* unset (mutation of post_records_wunderground)
post_records_wunderground_and(event, env, answer) ==
    IF Absent(event, "nickname") THEN Outcome("KeyError", FALSE, <<>>)
    ELSE
    LET station_id == EnvironGet(env, WuIdVar(get_station_value(event.nickname)))
        station_key == EnvironGet(env, WuKeyVar(get_station_value(event.nickname)))
    IN IF ~station_id.some /\ ~station_key.some THEN Outcome("", FALSE, <<>>)
       ELSE LET req == WundergroundRequest(WundergroundParameters(
                          event, station_id.v, station_key.v,
                          quote_plus(event.timestamp)))
            IN IF answer.fault THEN Outcome("", FALSE, <<req>>)
               ELSE Outcome("", TRUE, <<req>>)

\* post_records_wunderground(event): KeyError and ValueError are not
\* RequestException, so they leave the function; False when a credential is
\* unset (no request) or when requests.get raises RequestException; True
\* after any completed response
post_records_wunderground(event, env, answer) ==
    IF Absent(event, "nickname") THEN Outcome("KeyError", FALSE, <<>>)
    ELSE
    LET station_id == EnvironGet(env, WuIdVar(get_station_value(event.nickname)))
        station_key == EnvironGet(env, WuKeyVar(get_station_value(event.nickname)))
    IN IF CredentialsMissing(station_id, station_key) THEN Outcome("", FALSE, <<>>)
       ELSE IF FirstKeyError(event, WundergroundAccesses, 1) # 0
       THEN Outcome("KeyError", FALSE, <<>>)
       ELSE LET dt == convert_date_time(event.timestamp)
            IN IF dt.raised # "" THEN Outcome(dt.raised, FALSE, <<>>)
               ELSE LET req == WundergroundRequest(WundergroundParameters(
                                  event, station_id.v, station_key.v, dt.value))
                    IN IF answer.fault THEN Outcome("", FALSE, <<req>>)
                       ELSE Outcome("", TRUE, <<req>>)

-----------------------------------------------------------------------------
(* lambda_handler.handler, in the steps it takes. *)

\* 'weather' in event.path
RECURSIVE ContainsAt(_, _, _)
ContainsAt(sub, s, i) ==
    IF i + Len(sub) - 1 > Len(s) THEN FALSE
    ELSE IF SubSeq(s, i, i + Len(sub) - 1) = sub THEN TRUE
    ELSE ContainsAt(sub, s, i + 1)
Contains(sub, s) == ContainsAt(sub, s, 1)

Weather == <<"w","e","a","t","h","e","r">>

\* the condition of line 37
Routed(req) == Contains(Weather, req.path) /\ req.http_method = "POST"

Ok200 == [statusCode |-> 200, message |-> "POST request processed successfully"]
Fail400 == [statusCode |-> 400, message |-> "POST Processing failed"]
NoResponse == [statusCode |-> 0, message |-> ""]

\* a handler satisfied with one publisher (mutation of HandlerResponse)
HandlerResponseOr(rw, rwu) == IF rw \/ rwu THEN Ok200 ELSE Fail400

\* lines 40-58: 200 when both results are true, else the 400 at the end
HandlerResponse(rw, rwu) == IF rw /\ rwu THEN Ok200 ELSE Fail400

\* a handler that skips the second publisher when the first failed
\* (mutation of AfterWindy)
AfterWindyShortCircuit(rw) == IF rw THEN "wunderground" ELSE "respond"

\* line 39 follows line 38 whatever result_windy is
AfterWindy(rw) == "wunderground"

\* line 37 false: fall through to the return of line 50
HandlerReject ==
    /\ pc = "start"
    /\ ~Routed(request)
    /\ response' = Fail400
    /\ pc' = "returned"
    /\ UNCHANGED <<request, environ, endpoint, outbound, calls, result_windy,
                   result_wunderground, error>>

\* line 38: result_windy = process_windy_records(event=event.json_body)
HandlerWindy ==
    /\ pc = "start"
    /\ Routed(request)
    /\ LET o == process_windy_records(request.json_body, environ, endpoint.windy)
       IN /\ calls' = Append(calls, "process_windy_records")
          /\ outbound' = outbound \o o.requests
          /\ IF o.raised # ""
             THEN /\ error' = o.raised
                  /\ pc' = "raised"
                  /\ UNCHANGED result_windy
             ELSE /\ result_windy' = o.result
                  /\ pc' = AfterWindy(o.result)
                  /\ UNCHANGED error
    /\ UNCHANGED <<request, environ, endpoint, result_wunderground, response>>

\* line 39: result_wunderground = post_records_wunderground(event=event.json_body)
HandlerWunderground ==
    /\ pc = "wunderground"
    /\ LET o == post_records_wunderground(request.json_body, environ,
                                          endpoint.wunderground)
       IN /\ calls' = Append(calls, "post_records_wunderground")
          /\ outbound' = outbound \o o.requests
          /\ IF o.raised # ""
             THEN /\ error' = o.raised
                  /\ pc' = "raised"
                  /\ UNCHANGED result_wunderground
             ELSE /\ result_wunderground' = o.result
                  /\ pc' = "respond"
                  /\ UNCHANGED error
    /\ UNCHANGED <<request, environ, endpoint, result_windy, response>>

\* lines 40-58: the return statements
HandlerReturn ==
    /\ pc = "respond"
    /\ response' = HandlerResponse(result_windy, result_wunderground)
    /\ pc' = "returned"
    /\ UNCHANGED <<request, environ, endpoint, outbound, calls, result_windy,
                   result_wunderground, error>>

-----------------------------------------------------------------------------
(* Inputs of the handler. *)

LizardHubs == <<"L","i","z","a","r","d","H","u","b","s">>
OlliverHome == <<"O","l","l","i","v","e","r"," ","H","o","m","e">>
UnknownStation == <<"u","n","k","n","o","w","n","-","s","t","a","t","i","o","n">>
Nicknames == {LizardHubs, OlliverHome, UnknownStation, <<>>}

\* "2024-01-01T12:00:00.000Z", the form EnvironWRecord.timestamp defaults to
IsoTimestamp == <<"2","0","2","4","-","0","1","-","0","1","T",
                  "1","2",":","0","0",":","0","0",".","0","0","0","Z">>
\* "2024-01-01 12:00:00"
PlainTimestamp == <<"2","0","2","4","-","0","1","-","0","1"," ",
                    "1","2",":","0","0",":","0","0">>
Timestamps == {IsoTimestamp, PlainTimestamp}

SampleReadings ==
    [pressure |-> Rat(101300, 1), wind_speed |-> Rat(3, 1), rain |-> Rat(1, 1),
     wind_direction |-> 180, humidity |-> Rat(55, 1),
     temperature |-> Rat(45, 2), light |-> Rat(500, 1)]

\* well-formed bodies, and bodies from which up to MaxMissing keys are absent
\* (what the absent keys would have held is never read)
Bodies ==
    {[missing |-> {}, nickname |-> n, timestamp |-> t, readings |-> SampleReadings] :
        n \in Nicknames, t \in Timestamps}
    \cup
    {[missing |-> m, nickname |-> LizardHubs, timestamp |-> t,
      readings |-> SampleReadings] :
        m \in {k \in SUBSET BodyKeys : Cardinality(k) \in 1..MaxMissing},
        t \in Timestamps}

WeatherPath == <<"/">> \o Weather
HealthPath == <<"/","h","e","a","l","t","h">>

WellFormedBody ==
    [missing |-> {}, nickname |-> LizardHubs, timestamp |-> PlainTimestamp,
     readings |-> SampleReadings]

Requests ==
    {[path |-> WeatherPath, http_method |-> "POST", json_body |-> b] : b \in Bodies}
    \cup {[path |-> WeatherPath, http_method |-> "GET", json_body |-> WellFormedBody],
          [path |-> HealthPath, http_method |-> "POST", json_body |-> WellFormedBody]}

EnvNames == {"WINDY_API_KEY",
             "WUNDERGROUND_STATION_ID_0", "WUNDERGROUND_STATION_KEY_0",
             "WUNDERGROUND_STATION_ID_1", "WUNDERGROUND_STATION_KEY_1"}
EnvValue == [n \in EnvNames |->
    CASE n = "WINDY_API_KEY" -> "windy-key"
      [] n = "WUNDERGROUND_STATION_ID_0" -> "KSTATION0"
      [] n = "WUNDERGROUND_STATION_KEY_0" -> "secret0"
      [] n = "WUNDERGROUND_STATION_ID_1" -> "KSTATION1"
      [] n = "WUNDERGROUND_STATION_KEY_1" -> "secret1"]
Environs == {[n \in set |-> EnvValue[n]] : set \in SUBSET EnvNames}

Answers == {Fault, Answer(200), Answer(404), Answer(500)}

-----------------------------------------------------------------------------
(* Station resolution on its own: a sample nickname, edited in case and    *)
(* punctuation, then resolved.                                             *)

OLLIVERHOME == Station[1].name
LIZARDHUBS == Station[2].name

NameSamples ==
    { [nick |-> OlliverHome, canon |-> OLLIVERHOME],
      [nick |-> <<"o","l","l","i","v","e","r","h","o","m","e">>, canon |-> OLLIVERHOME],
      [nick |-> <<"O","L","L","I","V","E","R","-","H","O","M","E","!">>,
       canon |-> OLLIVERHOME],
      [nick |-> LizardHubs, canon |-> LIZARDHUBS],
      [nick |-> UnknownStation,
       canon |-> <<"U","N","K","N","O","W","N","S","T","A","T","I","O","N">>],
      [nick |-> <<>>, canon |-> <<>>],
      [nick |-> <<"L","i","z","a","r","d"," ","H","u","b">>,
       canon |-> <<"L","I","Z","A","R","D","H","U","B">>],
      [nick |-> <<"O","L","L","I","V","E","R","H","O","M","E","2">>,
       canon |-> <<"O","L","L","I","V","E","R","H","O","M","E","2">>] }

Punctuation == {" ", "-", "!"}

SwapCase(c) == IF c \in Range(LowerLetters) THEN UpperChar(c) ELSE LowerChar(c)

InsertAt(s, i, c) == SubSeq(s, 1, i - 1) \o <<c>> \o SubSeq(s, i, Len(s))

ToggleCase ==
    /\ ~resolved.done
    /\ edits < MaxEdits
    /\ \E i \in 1..Len(station_name) :
          /\ SwapCase(station_name[i]) # station_name[i]
          /\ station_name' = [station_name EXCEPT ![i] = SwapCase(@)]
    /\ edits' = edits + 1
    /\ UNCHANGED <<canonical, resolved, handlerVars, ctorVars>>

InsertPunctuation ==
    /\ ~resolved.done
    /\ edits < MaxEdits
    /\ \E i \in 1..(Len(station_name) + 1), c \in Punctuation :
          station_name' = InsertAt(station_name, i, c)
    /\ edits' = edits + 1
    /\ UNCHANGED <<canonical, resolved, handlerVars, ctorVars>>

\* a call get_station_value(station_name)
Resolve ==
    /\ ~resolved.done
    /\ resolved' = [done |-> TRUE, value |-> get_station_value(station_name)]
    /\ UNCHANGED <<station_name, canonical, edits, handlerVars, ctorVars>>

-----------------------------------------------------------------------------
(* The record constructors on their own: one call with sample arguments.   *)

OptInts(k) == {None, Some(0), Some(k)}
OptRat(k) == {NoneRat, Some(Rat(k, 1))}
OptRats(k) == {NoneRat, Some(Rat(0, 1)), Some(Rat(k, 1))}

ObsArgs ==
    {[temp |-> Some(Rat(20, 1)), wind |-> Some(Rat(3, 1)), windir |-> Some(180),
      gust |-> Some(Rat(0, 1)), humidity |-> Some(Rat(55, 1)),
      dewpoint |-> Some(Rat(0, 1)), pressure |-> Some(Rat(101300, 1)),
      precip |-> Some(Rat(1, 1)), uv |-> Some(Rat(500, 1)),
      si |-> si, stationId |-> stationId, dateutc |-> dateutc, ts |-> ts,
      tempf |-> tempf, windspeedmph |-> windspeedmph, windgustmph |-> windgustmph,
      rh |-> rh, mbar |-> mbar, baromin |-> baromin, rainin |-> rainin,
      station |-> station, time |-> IsoTimestamp] :
        si \in OptInts(3), stationId \in OptInts(5), station \in {0, 7},
        dateutc \in {NoneChars, Some(PlainTimestamp), Some(IsoTimestamp)},
        ts \in OptInts(90061),
        tempf \in OptRat(68), windspeedmph \in OptRat(10),
        windgustmph \in OptRat(15), rh \in OptRat(40),
        mbar \in OptRats(1013), baromin \in OptRats(30), rainin \in OptRat(2)}

StationArgs ==
    {[elevation |-> 100, tempheight |-> 2, windheight |-> 10,
      station |-> station, si |-> si, stationId |-> stationId,
      elev |-> elev, elev_m |-> elev_m, altitude |-> altitude,
      agl_temp |-> agl_temp, agl_wind |-> agl_wind, shareOption |-> "Open"] :
        station \in OptInts(7), si \in OptInts(3), stationId \in OptInts(5),
        elev \in OptInts(110), elev_m \in OptInts(120), altitude \in OptInts(130),
        agl_temp \in {None, Some(4)}, agl_wind \in {None, Some(12)}}

NoCall == [cls |-> "none", args |-> <<>>, raised |-> "", rec |-> <<>>]

ConstructObservation ==
    /\ ctor.cls = "none"
    /\ \E a \in ObsArgs :
          LET r == WindyObservationRecord(a)
          IN ctor' = [cls |-> "WindyObservationRecord", args |-> a,
                      raised |-> r.raised, rec |-> r.rec]
    /\ UNCHANGED <<handlerVars, resolverVars>>

ConstructStation ==
    /\ ctor.cls = "none"
    /\ \E a \in StationArgs :
          LET r == WindyStationRecord(a)
          IN ctor' = [cls |-> "WindyStationRecord", args |-> a,
                      raised |-> r.raised, rec |-> r.rec]
    /\ UNCHANGED <<handlerVars, resolverVars>>

-----------------------------------------------------------------------------
(* Specifications. *)

HandlerIdle ==
    /\ pc = "idle"
    /\ request = [path |-> HealthPath, http_method |-> "GET",
                  json_body |-> WellFormedBody]
    /\ environ = <<>>
    /\ endpoint = [windy |-> Fault, wunderground |-> Fault]
    /\ outbound = <<>>
    /\ calls = <<>>
    /\ result_windy = FALSE
    /\ result_wunderground = FALSE
    /\ response = NoResponse
    /\ error = ""

ResolverIdle ==
    /\ station_name = <<>>
    /\ canonical = <<>>
    /\ edits = 0
    /\ resolved = [done |-> TRUE, value |-> 0]

CtorIdle == ctor = [NoCall EXCEPT !.cls = "idle"]

\* one invocation of the handler
Init ==
    /\ pc = "start"
    /\ request \in Requests
    /\ environ \in Environs
    /\ endpoint \in [windy : Answers, wunderground : Answers]
    /\ outbound = <<>>
    /\ calls = <<>>
    /\ result_windy = FALSE
    /\ result_wunderground = FALSE
    /\ response = NoResponse
    /\ error = ""
    /\ ResolverIdle
    /\ CtorIdle

Next ==
    \/ HandlerReject /\ UNCHANGED <<resolverVars, ctorVars>>
    \/ HandlerWindy /\ UNCHANGED <<resolverVars, ctorVars>>
    \/ HandlerWunderground /\ UNCHANGED <<resolverVars, ctorVars>>
    \/ HandlerReturn /\ UNCHANGED <<resolverVars, ctorVars>>

Spec == Init /\ [][Next]_vars

\* get_station_value on edited sample nicknames
InitResolve ==
    /\ HandlerIdle
    /\ CtorIdle
    /\ \E s \in NameSamples : station_name = s.nick /\ canonical = s.canon
    /\ edits = 0
    /\ resolved = [done |-> FALSE, value |-> 0]

NextResolve == ToggleCase \/ InsertPunctuation \/ Resolve

SpecResolve == InitResolve /\ [][NextResolve]_vars

\* one constructor call
InitCtor ==
    /\ HandlerIdle
    /\ ResolverIdle
    /\ ctor = NoCall

NextCtor == ConstructObservation \/ ConstructStation

SpecCtor == InitCtor /\ [][NextCtor]_vars

-----------------------------------------------------------------------------
(* Vocabulary of the properties. *)

Body == request.json_body
WellFormed == Body.missing = {}
Terminal == pc \in {"returned", "raised"}
Invoked(f) == \E i \in 1..Len(calls) : calls[i] = f
RequestsTo(target) == {i \in 1..Len(outbound) : outbound[i].target = target}

WindyKeySet == "WINDY_API_KEY" \in DOMAIN environ
\* the station id the nickname of the body stands for
BodyStation ==
    IF Upper(FilterAlnum(Body.nickname)) = LIZARDHUBS THEN 1 ELSE 0
WuCredentialsSet ==
    /\ WuIdVar(BodyStation) \in DOMAIN environ
    /\ WuKeyVar(BodyStation) \in DOMAIN environ
AllSet == [n \in EnvNames |-> EnvValue[n]]

-----------------------------------------------------------------------------
(* C1: for a routed request the handler, when it returns, answers 200 with *)
(* the success message exactly when both publishers returned True, and     *)
(* 400 with the failure message in every other case in which it returns.  *)
C1_ResponseIsConjunction ==
    pc = "returned" =>
        /\ response \in {Ok200, Fail400}
        /\ response = Ok200 <=>
              (Routed(request) /\ result_windy /\ result_wunderground)

C1_Witness ==
    /\ pc = "returned" /\ Routed(request) /\ WellFormed
    /\ result_windy /\ result_wunderground
    /\ response = Ok200

(* C2: publisher A returns True only when the target answered 200; any     *)
(* other status and any network fault gives False, hence a 400.            *)
C2_WindySuccessOnly200 ==
    /\ (Invoked("process_windy_records") /\ error = ""
            /\ endpoint.windy # Answer(200)) => ~result_windy
    /\ (pc = "returned" /\ Routed(request) /\ endpoint.windy # Answer(200))
            => response = Fail400

(* C3: a well-formed observation with a known nickname and an ISO-8601     *)
(* timestamp, every credential set and both targets answering 200, runs    *)
(* to completion without raising and the handler returns 200.              *)
C3_EndToEndSuccess ==
    ( /\ Routed(request) /\ WellFormed
      /\ Body.nickname \in {LizardHubs, OlliverHome}
      /\ Body.timestamp = IsoTimestamp
      /\ WindyKeySet /\ WuCredentialsSet
      /\ endpoint = [windy |-> Answer(200), wunderground |-> Answer(200)]
      /\ Terminal )
    => /\ pc = "returned" /\ error = ""
       /\ result_windy /\ result_wunderground
       /\ response = Ok200

(* C4: for a routed, well-formed observation publisher B is invoked after  *)
(* publisher A whatever A returned; the handler never ends without having  *)
(* called B.                                                               *)
C4_NoShortCircuit ==
    (Routed(request) /\ WellFormed) =>
        /\ pc \in {"respond", "returned", "raised"} =>
              calls = <<"process_windy_records", "post_records_wunderground">>
        /\ pc = "wunderground" => calls = <<"process_windy_records">>

C4_Witness ==
    /\ Terminal /\ Routed(request) /\ WellFormed
    /\ WindyKeySet /\ endpoint.windy = Fault /\ ~result_windy
    /\ Invoked("post_records_wunderground")

(* C5: with the target-A key set and a target-B credential unset, the      *)
(* POST to A is issued exactly as when everything is set, B returns False  *)
(* and the handler returns 400 with the failure message.                   *)
C5_PartialFailure ==
    (Routed(request) /\ WellFormed /\ WindyKeySet /\ ~WuCredentialsSet /\ Terminal)
    => /\ pc = "returned" /\ response = Fail400
       /\ ~result_wunderground
       /\ Len(outbound) = 1
       /\ outbound[1].target = "windy" /\ outbound[1].method = "POST"
       /\ outbound = process_windy_records(Body, AllSet, endpoint.windy).requests

C5_Witness ==
    /\ pc = "returned" /\ Routed(request) /\ WellFormed
    /\ WindyKeySet /\ ~WuCredentialsSet
    /\ WuIdVar(BodyStation) \in DOMAIN environ
    /\ result_windy /\ response = Fail400
    /\ RequestsTo("windy") = {1}

(* C6: with WINDY_API_KEY unset publisher A returns False and issues no    *)
(* request; with either credential of the resolved station unset publisher *)
(* B returns False and issues no request.                                  *)
C6_ConfigErrorNoRequest ==
    /\ ~WindyKeySet =>
          /\ RequestsTo("windy") = {}
          /\ ~result_windy
          /\ WellFormed => ~(pc = "raised" /\ calls = <<"process_windy_records">>)
    /\ ~WuCredentialsSet =>
          /\ RequestsTo("wunderground") = {}
          /\ ~result_wunderground
          /\ Invoked("post_records_wunderground") => error = ""

C6_Witness ==
    /\ pc = "returned" /\ Routed(request) /\ WellFormed
    /\ ~WindyKeySet /\ ~WuCredentialsSet
    /\ calls = <<"process_windy_records", "post_records_wunderground">>
    /\ outbound = <<>>

\* publisher B alone: once the GET is issued, True exactly when the request
\* completed with a response, whatever the status
WundergroundAnyStatus ==
    (pc \in {"respond", "returned"} /\ RequestsTo("wunderground") # {})
    => (result_wunderground <=> ~endpoint.wunderground.fault)

(* C7: once the GET is issued publisher B returns True for every completed *)
(* response whatever its status and False exactly on a network fault, and  *)
(* this differs from publisher A, which a non-200 status makes fail.       *)
C7_WundergroundDiffersFromWindy ==
    /\ WundergroundAnyStatus
    /\ ( /\ pc \in {"respond", "returned"}
         /\ RequestsTo("windy") # {} /\ RequestsTo("wunderground") # {}
         /\ ~endpoint.windy.fault
         /\ endpoint.windy.status # 200
         /\ endpoint.wunderground = endpoint.windy )
       => (result_wunderground /\ ~result_windy)

\* the station value a canonical (upper-case alphanumeric) name stands for
ExpectedValue(canon) ==
    IF canon = OLLIVERHOME THEN 0 ELSE IF canon = LIZARDHUBS THEN 1 ELSE 0

(* C8: get_station_value ignores case, spaces and punctuation and is       *)
(* total: every nickname resolves to the value of the station whose name   *)
(* is its upper-cased alphanumeric content, or to 0 when there is none.    *)
C8_ResolutionInsensitive ==
    resolved.done => resolved.value = ExpectedValue(canonical)

C8_Witness ==
    /\ resolved.done /\ resolved.value = 1
    /\ canonical = LIZARDHUBS
    /\ edits > 0
    /\ \E i \in 1..Len(station_name) : ~IsAlnum(station_name[i])
    /\ \E i \in 1..Len(station_name) : station_name[i] \in Range(LowerLetters)

(* C9: when a required key is absent from the body, normalisation raises   *)
(* KeyError, which leaves the handler: no response is returned and no      *)
(* request has been issued to either target.                               *)
C9_MalformedIsFatal ==
    (Routed(request) /\ ~WellFormed) =>
        /\ outbound = <<>>
        /\ response = NoResponse
        /\ pc \in {"start", "raised"}
        /\ pc = "raised" => (error = "KeyError" /\ calls = <<"process_windy_records">>)

C9_Witness ==
    /\ pc = "raised" /\ error = "KeyError"
    /\ Body.missing = {"readings.light"}
    /\ WindyKeySet /\ WuCredentialsSet
    /\ outbound = <<>>

-----------------------------------------------------------------------------
(* Alias resolution in the record constructors. *)

\* the last alternate of alts that is present, else base
RECURSIVE LastPresent(_, _)
LastPresent(base, alts) ==
    IF alts = <<>> THEN base
    ELSE IF alts[Len(alts)].some THEN alts[Len(alts)].v
    ELSE LastPresent(base, SubSeq(alts, 1, Len(alts) - 1))

\* the first alternate of alts that is present, else base
RECURSIVE FirstPresent(_, _)
FirstPresent(base, alts) ==
    IF alts = <<>> THEN base
    ELSE IF Head(alts).some THEN Head(alts).v
    ELSE FirstPresent(base, Tail(alts))

\* the aliased fields of a WindyObservationRecord resolve with the alternate
\* listed last taking precedence: station < si < stationId,
\* time < dateutc < ts, pressure < mbar < baromin (in Pa)
ObsAliasesResolved ==
    (ctor.cls = "WindyObservationRecord" /\ ctor.raised = "") =>
        LET a == ctor.args
            inPa == [some |-> a.baromin.some,
                     v |-> Some(Rat(a.baromin.v.n * 338639, a.baromin.v.d * 100))]
        IN /\ ctor.rec.station = LastPresent(a.station, <<a.si, a.stationId>>)
           /\ ctor.rec.time =
                LastPresent(a.time,
                    << [some |-> a.dateutc.some,
                        v |-> IF a.dateutc.some THEN IsoFromDateutc(a.dateutc.v)
                              ELSE <<>>],
                       [some |-> a.ts.some, v |-> IsoFromTimestamp(a.ts.v)] >>)
           /\ ctor.rec.pressure =
                LastPresent(a.pressure, << [some |-> a.mbar.some, v |-> a.mbar] , inPa >>)

\* elevation < elev < elev_m < altitude in a WindyStationRecord
ElevationResolved ==
    ctor.cls = "WindyStationRecord" =>
        ctor.rec.elevation =
            LastPresent(ctor.args.elevation,
                        <<ctor.args.elev, ctor.args.elev_m, ctor.args.altitude>>)

(* C10 as stated: in both constructors, for every aliased field, the       *)
(* alternate checked later overrides the earlier ones when present, and    *)
(* an absent alternate changes nothing.                                    *)
C10_LaterAlternateOverrides ==
    /\ ObsAliasesResolved
    /\ ElevationResolved
    /\ (ctor.cls = "WindyStationRecord"
            /\ (ctor.args.station.some \/ ctor.args.si.some \/ ctor.args.stationId.some))
       => ctor.rec.station =
            Some(LastPresent(0, <<ctor.args.station, ctor.args.si, ctor.args.stationId>>))

(* C10, amended: as stated for WindyObservationRecord (stationId over si   *)
(* over station, ts over dateutc over time, baromin over mbar over         *)
(* pressure) and for the elevation of WindyStationRecord; the station of   *)
(* WindyStationRecord is the first present of station, si, stationId, and  *)
(* 0 when none is present.                                                 *)
C10_AliasPrecedence ==
    /\ ObsAliasesResolved
    /\ ElevationResolved
    /\ ctor.cls = "WindyStationRecord"
       => ctor.rec.station =
            Some(FirstPresent(0, <<ctor.args.station, ctor.args.si, ctor.args.stationId>>))

C10_Witness ==
    /\ ctor.cls = "WindyStationRecord"
    /\ ctor.args.station = Some(7) /\ ctor.args.si = Some(3)
    /\ ctor.args.stationId = Some(5)
    /\ ctor.args.elev = Some(110) /\ ctor.args.elev_m = Some(120)
    /\ ctor.args.altitude = None
    /\ ctor.rec.station = Some(7) /\ ctor.rec.elevation = 120

-----------------------------------------------------------------------------
(* Unmatched nicknames and the station OLLIVERHOME. *)

\* the nickname of the body is the name of no station
UnmatchedNickname ==
    Upper(FilterAlnum(Body.nickname)) \notin {Station[i].name : i \in 1..Len(Station)}

\* the same body sent under the nickname "Olliver Home"
OlliverTwin == [Body EXCEPT !.nickname = OlliverHome]

(* C11: an observation whose nickname matches no station is published     *)
(* exactly as one of OLLIVERHOME: the target-A payload carries station 0,  *)
(* publisher B uses WUNDERGROUND_STATION_ID_0 / _KEY_0, and the requests   *)
(* issued, the publishers' results, the exception and the response are     *)
(* those of the same body sent under the nickname "Olliver Home".          *)
C11_UnmatchedPublishedAsOlliverHome ==
    (Routed(request) /\ WellFormed /\ UnmatchedNickname /\ Terminal) =>
        LET a == process_windy_records(OlliverTwin, environ, endpoint.windy)
            b == post_records_wunderground(OlliverTwin, environ,
                                           endpoint.wunderground)
        IN /\ outbound = a.requests \o b.requests
           /\ error = b.raised
           /\ error = "" =>
                 /\ result_windy = a.result
                 /\ result_wunderground = b.result
                 /\ response = HandlerResponse(a.result, b.result)
           /\ \A i \in RequestsTo("windy") :
                 outbound[i].data[1].observations[1][2].station = 0
           /\ \A i \in RequestsTo("wunderground") :
                 /\ outbound[i].data[1].ID = EnvValue["WUNDERGROUND_STATION_ID_0"]
                 /\ outbound[i].data[1].PASSWORD = EnvValue["WUNDERGROUND_STATION_KEY_0"]

C11_Witness ==
    /\ pc = "returned" /\ Routed(request) /\ WellFormed
    /\ Body.nickname = UnknownStation
    /\ Body.timestamp = PlainTimestamp
    /\ environ = AllSet
    /\ RequestsTo("windy") = {1} /\ RequestsTo("wunderground") = {2}
    /\ response = Ok200

====
